---- MODULE Spec2Model ----
(***************************************************************************)
(* Labeling engine and trade simulation of autotrading/ml_backtest.py.     *)
(*                                                                         *)
(* A float is an exact rational <<n, d>> with d > 0, an infinity <<1, 0>>  *)
(* or <<-1, 0>>, or NaN (the empty tuple).  Comparisons with NaN are       *)
(* false, as in IEEE arithmetic.  A                                        *)
(* pandas Series / DataFrame column over n bars is a function on 0..n-1;   *)
(* a numpy array or a Python list is a sequence.  A DataFrame is a         *)
(* function from column names to columns.                                  *)
(***************************************************************************)
EXTENDS Integers, Sequences, FiniteSets, TLC

VARIABLES data, call, ret, pc

vars == <<data, call, ret, pc>>

-----------------------------------------------------------------------------
(* Bounds of the model *)

\* longest price table of the back-test
MaxBars == 4
\* opens of the back-test are drawn from 1..MaxOpen
MaxOpen == 2
\* longest close series given to a labeler
MaxLen == 5
\* closes given to a labeler are drawn from 1..MaxClose
MaxClose == 3
\* largest max_period given to triple_barrier
MaxPeriod == 3
\* largest look_forward given to fixed_time_horizon
MaxLookForward == 2
\* largest prediction_delay given to generate_label
MaxDelay == 2
\* longest close series given to the turning-point labelers
MaxLenTP == 5
\* closes given to the turning-point labelers are drawn from 1..MaxCloseTP
MaxCloseTP == 2

\* absolute_turning_points bar by bar: bars of a table of closes
MaxLenATP == 6

\* longest return series given to drawdown
MaxLenDD == 3
\* returns given to drawdown are the halves from -MaxLoss2/2 to MaxGain2/2
MaxLoss2 == 3
MaxGain2 == 2

\* cash=1000: the default initial cash of drawdown and of ml_backtest
cash_default == 1000

-----------------------------------------------------------------------------
(* Floats *)

\* A float is NaN, a rational <<n, d>> in lowest terms with d > 0, or an
\* infinity <<1, 0>>, <<-1, 0>>.  The sign of a zero is not kept.

NaN == <<>>

isnan(x) == x = NaN

F(n) == <<n, 1>>

Inf == <<1, 0>>

Abs(n) == IF n < 0 THEN -n ELSE n

RECURSIVE GCD(_, _)
GCD(a, b) == IF b = 0 THEN a ELSE GCD(b, a % b)

\* the float of the fraction n/d: lowest terms, positive denominator; x/0 is
\* an infinity and 0/0 is NaN
Norm(n, d) ==
    IF d = 0 THEN (IF n = 0 THEN NaN ELSE IF n > 0 THEN Inf ELSE <<-1, 0>>)
    ELSE LET g == GCD(Abs(n), Abs(d))
         IN  IF d > 0 THEN <<n \div g, d \div g>> ELSE <<(-n) \div g, (-d) \div g>>

Eq(a, b) == /\ ~isnan(a)
            /\ ~isnan(b)
            /\ IF a[2] = 0 /\ b[2] = 0 THEN a[1] = b[1] ELSE a[1] * b[2] = b[1] * a[2]

Ne(a, b) == ~Eq(a, b)

Gt(a, b) == /\ ~isnan(a)
            /\ ~isnan(b)
            /\ IF a[2] = 0 /\ b[2] = 0 THEN a[1] > b[1] ELSE a[1] * b[2] > b[1] * a[2]

Lt(a, b) == Gt(b, a)

Ge(a, b) == Gt(a, b) \/ Eq(a, b)

Le(a, b) == Ge(b, a)

Add(a, b) == IF isnan(a) \/ isnan(b) THEN NaN
             ELSE IF a[2] = 0 /\ b[2] = 0 THEN (IF a[1] = b[1] THEN a ELSE NaN)
             ELSE Norm(a[1] * b[2] + b[1] * a[2], a[2] * b[2])

Neg(x) == IF isnan(x) THEN NaN ELSE <<-x[1], x[2]>>

Sub(a, b) == Add(a, Neg(b))

Mul(a, b) == IF isnan(a) \/ isnan(b) THEN NaN
             ELSE LET g1 == GCD(Abs(a[1]), b[2])
                      g2 == GCD(Abs(b[1]), a[2])
                  IN  IF g1 = 0 \/ g2 = 0 THEN Norm(a[1] * b[1], a[2] * b[2])
                      ELSE Norm((a[1] \div g1) * (b[1] \div g2),
                                (a[2] \div g2) * (b[2] \div g1))

\* 1/x: 1/0 is +inf, 1/inf is 0
Inv(x) == IF isnan(x) THEN NaN
          ELSE IF x[1] = 0 THEN Inf
          ELSE IF x[2] = 0 THEN F(0)
          ELSE IF x[1] > 0 THEN <<x[2], x[1]>>
          ELSE <<-x[2], -x[1]>>

Div(a, b) == Mul(a, Inv(b))

-----------------------------------------------------------------------------
(* pandas / numpy primitives *)

Min(S) == CHOOSE m \in S : \A x \in S : m <= x

Max(S) == CHOOSE m \in S : \A x \in S : m >= x

Length(s) == Cardinality(DOMAIN s)

\* Series.shift(k): the value of bar i moves to bar i + k
shift(s, k) == [i \in DOMAIN s |-> IF (i - k) \in DOMAIN s THEN s[i - k] ELSE NaN]

\* Series.fillna(v)
fillna(s, v) == [i \in DOMAIN s |-> IF isnan(s[i]) THEN v ELSE s[i]]

RECURSIVE Sorted(_)
\* the members of a set of positions, ascending
Sorted(S) == IF S = {} THEN <<>>
             ELSE LET m == Min(S) IN <<m>> \o Sorted(S \ {m})

\* np.array(s[mask]): the values of the selected bars, in index order
Values(s, idx) == [k \in 1..Len(idx) |-> s[idx[k]]]

\* frame[col] = series: index-aligned column assignment, NaN where the
\* series has no entry
Aligned(index, sub) == [i \in index |-> IF i \in DOMAIN sub THEN sub[i] ELSE NaN]

\* df[col] = v on a frame (adds or overwrites the column)
SetCol(df, col, v) == [c \in DOMAIN df \cup {col} |-> IF c = col THEN v ELSE df[c]]

RECURSIVE ProdUpTo(_, _)
\* the product of the values of bars 0..t that are not NaN
ProdUpTo(s, t) ==
    IF t < 0 THEN F(1)
    ELSE IF isnan(s[t]) THEN ProdUpTo(s, t - 1)
    ELSE Mul(ProdUpTo(s, t - 1), s[t])

\* Series.cumprod(): NaN bars stay NaN and are skipped by the running product
cumprod(s) == [t \in DOMAIN s |-> IF isnan(s[t]) THEN NaN ELSE ProdUpTo(s, t)]

RECURSIVE MaxUpTo(_, _)
\* the largest value of bars 0..t that is not NaN (NaN if there is none)
MaxUpTo(s, t) ==
    IF t < 0 THEN NaN
    ELSE LET m == MaxUpTo(s, t - 1)
         IN  IF isnan(s[t]) THEN m
             ELSE IF isnan(m) \/ Gt(s[t], m) THEN s[t]
             ELSE m

\* Series.cummax(): NaN bars stay NaN and are skipped by the running maximum
cummax(s) == [t \in DOMAIN s |-> IF isnan(s[t]) THEN NaN ELSE MaxUpTo(s, t)]

\* series + 1
plus1(s) == [t \in DOMAIN s |-> Add(s[t], F(1))]

\* cash * series
scaled(s, cash) == [t \in DOMAIN s |-> Mul(cash, s[t])]

-----------------------------------------------------------------------------
(* drawdown (risk_kit.py) and simple_drawdown (ml_backtest.py) *)

\* mutant: the loss from the peak is divided by the wealth, not by the peak
drawdowns_of_wealth(wealth_index, previous_peak) ==
    [t \in DOMAIN wealth_index |->
        Div(Sub(wealth_index[t], previous_peak[t]), wealth_index[t])]

\* drawdowns = (wealth_index - previous_peak) / previous_peak
drawdowns_of(wealth_index, previous_peak) ==
    [t \in DOMAIN wealth_index |->
        Div(Sub(wealth_index[t], previous_peak[t]), previous_peak[t])]

drawdown(return_series, cash) ==
    LET wealth_index == scaled(cumprod(plus1(return_series)), cash)
        previous_peak == cummax(wealth_index)
    IN  [wealth   |-> wealth_index,
         peaks    |-> previous_peak,
         drawdown |-> drawdowns_of(wealth_index, previous_peak)]

simple_drawdown(return_series, cash) ==
    LET wealth_index == scaled(cumprod(plus1(return_series)), cash)
        previous_peak == cummax(wealth_index)
    IN  [wealth   |-> wealth_index,
         peaks    |-> previous_peak,
         drawdown |-> drawdowns_of(wealth_index, previous_peak)]

-----------------------------------------------------------------------------
(* ml_backtest: position book-keeping and trades *)

\* lambda x: 1.0 if x == 1.0 else 0.0
convert(x) == IF Eq(x, F(1)) THEN F(1) ELSE F(0)

binary_signal_col(prediction) == [i \in DOMAIN prediction |-> convert(prediction[i])]

\* mutant: the signal takes effect on its own bar (the one-bar delay is lost)
status_col_noshift(binary_signal) == fillna(binary_signal, F(0))

\* data['status'] = data.binary_signal.shift(1).fillna(0)
status_col(binary_signal) == fillna(shift(binary_signal, 1), F(0))

\* np.where((status == 1.0) & (status.shift(1) == 0.0))[0]
buy_where(status) ==
    Sorted({i \in DOMAIN status : Eq(status[i], F(1)) /\ Eq(shift(status, 1)[i], F(0))})

\* np.where((status == 0.0) & (status.shift(1) == 1.0))[0]
sell_where(status) ==
    Sorted({i \in DOMAIN status : Eq(status[i], F(0)) /\ Eq(shift(status, 1)[i], F(1))})

\* data.Open[positions]: the sub-series of the selected bars
Take(s, pos) == [i \in {pos[k] : k \in 1..Len(pos)} |-> s[i]]

\* the positions where a column is != 0
NonZero(col) == Sorted({i \in DOMAIN col : Ne(col[i], F(0))})

\* mutant: the first buy is dropped instead of the trailing one
DropTrailingBuy_first(buy_cost, sell_price) ==
    IF Len(buy_cost) > Len(sell_price) THEN SubSeq(buy_cost, 2, Len(buy_cost))
    ELSE buy_cost

\* if len(buy_cost) > len(sell_price): buy_cost = buy_cost[:-1]
DropTrailingBuy(buy_cost, sell_price) ==
    IF Len(buy_cost) > Len(sell_price) THEN SubSeq(buy_cost, 1, Len(buy_cost) - 1)
    ELSE buy_cost

\* numpy broadcasting of two 1-d arrays: equal lengths, or one of length 1
Broadcastable(a, b) == Len(a) = Len(b) \/ Len(a) = 1 \/ Len(b) = 1

At(a, k) == IF Len(a) = 1 THEN a[1] ELSE a[k]

BroadcastLen(a, b) == IF Len(a) = 1 THEN Len(b)
                      ELSE IF Len(b) = 1 THEN Len(a)
                      ELSE Len(a)

\* mutant: the ratio is taken the wrong way round
trade_return_of_inverted(sell_price, buy_cost) ==
    [k \in 1..BroadcastLen(sell_price, buy_cost) |->
        Sub(Div(At(buy_cost, k), At(sell_price, k)), F(1))]

\* trade_return = sell_price / buy_cost - 1
trade_return_of(sell_price, buy_cost) ==
    [k \in 1..BroadcastLen(sell_price, buy_cost) |->
        Sub(Div(At(sell_price, k), At(buy_cost, k)), F(1))]

\* net_trade_return = trade_return - fee
net_trade_return_of(trade_return, fee) ==
    [k \in 1..Len(trade_return) |-> Sub(trade_return[k], fee)]

\* data.loc[sell_dates, col] = values, on a column of zeros
PutAt(index, sell_dates, values) ==
    [i \in index |->
        IF \E k \in 1..Len(sell_dates) : sell_dates[k] = i
        THEN values[CHOOSE k \in 1..Len(sell_dates) : sell_dates[k] = i]
        ELSE F(0)]

\* data.Open / data.Open.shift(1) - 1
open_daily_return_col(Open) ==
    [i \in DOMAIN Open |-> Sub(Div(Open[i], shift(Open, 1)[i]), F(1))]

\* mutant: the position of the bar itself, not of the bar before
strategy_return_col_unshifted(status, open_daily_return) ==
    [i \in DOMAIN status |-> Mul(status[i], open_daily_return[i])]

\* data.status.shift(1) * data.open_daily_return
strategy_return_col(status, open_daily_return) ==
    [i \in DOMAIN status |-> Mul(shift(status, 1)[i], open_daily_return[i])]

\* mutant: the fee is taken at every bar
strategy_net_return_col_everybar(strategy_return, sell_dates, fee) ==
    [i \in DOMAIN strategy_return |-> Sub(strategy_return[i], fee)]

\* strategy_net_return: the strategy return, less the fee on the sell dates
strategy_net_return_col(strategy_return, sell_dates, fee) ==
    [i \in DOMAIN strategy_return |->
        IF \E k \in 1..Len(sell_dates) : sell_dates[k] = i
        THEN Sub(strategy_return[i], fee)
        ELSE strategy_return[i]]

\* the frame of the caller after lines 402-406 (the columns are added to the
\* caller's table before `data = data.fillna(0.0)` rebinds the local name)
backtest_frame(df, prediction) ==
    LET bs   == binary_signal_col(prediction)
        st   == status_col(bs)
        buy  == Aligned(DOMAIN df["Open"], Take(df["Open"], buy_where(st)))
        sell == Aligned(DOMAIN df["Open"], Take(df["Open"], sell_where(st)))
    IN  SetCol(SetCol(SetCol(SetCol(df, "binary_signal", bs), "status", st),
                      "buy_price", buy), "sell_price", sell)

\* what ml_backtest computes (lines 402-429 and the trade statistics)
-----------------------------------------------------------------------------
(* ml_backtest: equity curves and statistics.  Time is counted in bars: the  *)
(* index of bar t is t, so a drawdown duration is a number of bars.          *)

\* np.maximum.accumulate(s): the running maximum, NaN from the first NaN on
maximum_accumulate(s) ==
    [t \in DOMAIN s |-> IF \E u \in 0..t : isnan(s[u]) THEN NaN ELSE MaxUpTo(s, t)]

\* dd = 1 - strategy_net_return / np.maximum.accumulate(strategy_net_return)
dd_of(strategy_net_return) ==
    LET peak == maximum_accumulate(strategy_net_return)
    IN  [t \in DOMAIN strategy_net_return |->
            Sub(F(1), Div(strategy_net_return[t], peak[t]))]

\* Series.max(): the largest value that is not NaN, NaN if there is none
series_max(s) == MaxUpTo(s, Length(s) - 1)

\* the largest value of bars a..b that is not NaN: dd.iloc[a:b + 1].max()
slice_max(s, a, b) == series_max([t \in 0..(b - a) |-> s[a + t]])

RECURSIVE SumUpTo(_, _)
SumUpTo(s, t) ==
    IF t < 0 THEN F(0)
    ELSE IF isnan(s[t]) THEN SumUpTo(s, t - 1)
    ELSE Add(SumUpTo(s, t - 1), s[t])

\* Series.mean(): the mean of the values that are not NaN, NaN if there is none
series_mean(s) ==
    LET count == Cardinality({t \in DOMAIN s : ~isnan(s[t])})
    IN  IF count = 0 THEN NaN ELSE Div(SumUpTo(s, Length(s) - 1), F(count))

\* dd.replace(0, np.nan)
replace0(s) == [t \in DOMAIN s |-> IF Eq(s[t], F(0)) THEN NaN ELSE s[t]]

\* _compute_drawdown_duration_peaks: iloc is the at-peak bars (dd == 0) and
\* the last bar; a row is kept when it is more than one bar after the row
\* before it (the first row has no row before it and is dropped)
compute_drawdown_duration_peaks(dd) ==
    LET iloc == Sorted({t \in DOMAIN dd : Eq(dd[t], F(0))} \cup {Length(dd) - 1})
        rows == {k \in 2..Len(iloc) : iloc[k] > iloc[k - 1] + 1}
        row(t) == CHOOSE k \in rows : iloc[k] = t
        kept(t) == \E k \in rows : iloc[k] = t
    IN  IF rows = {}
        THEN [duration |-> replace0(dd), peak_dd |-> replace0(dd)]
        ELSE [duration |-> [t \in DOMAIN dd |->
                               IF kept(t) THEN F(iloc[row(t)] - iloc[row(t) - 1]) ELSE NaN],
              peak_dd  |-> [t \in DOMAIN dd |->
                               IF kept(t) THEN slice_max(dd, iloc[row(t) - 1], iloc[row(t)])
                               ELSE NaN]]

\* max_dd = -np.nan_to_num(dd.max()) * 100: nan_to_num turns NaN into 0 and
\* an infinity into the largest float, which the product overflows again
max_dd_of(dd) ==
    LET m == series_max(dd)
    IN  IF isnan(m) THEN F(0) ELSE Mul(Neg(m), F(100))

\* The annualised figures take roots and are not fractions; the model keeps
\* of each only whether it is "nan", "zero", "inf" or some other number
\* ("nonzero").
kind_of(x) ==
    IF isnan(x) THEN "nan"
    ELSE IF x[2] = 0 THEN "inf"
    ELSE IF x[1] = 0 THEN "zero"
    ELSE "nonzero"

\* a / b on kinds: x/0 is inf, 0/0 and anything with NaN is NaN
kind_div(a, b) ==
    IF a = "nan" \/ b = "nan" THEN "nan"
    ELSE IF b = "zero" THEN (IF a = "zero" THEN "nan" ELSE "inf")
    ELSE IF b = "inf" THEN (IF a = "inf" THEN "nan" ELSE "zero")
    ELSE a

\* ((prod(strategy_net_return + 1) ** (1 / n)) ** 252 - 1) * 100: zero when
\* the product is 1, NaN when a negative product meets a fractional power
annualized_return_kind(strategy_net_return) ==
    LET n == Length(strategy_net_return)
        growth == ProdUpTo(plus1(strategy_net_return), n - 1)
    IN  IF isnan(growth) THEN "nan"
        ELSE IF Lt(growth, F(0)) /\ n > 1 THEN "nan"
        ELSE IF Eq(growth, F(1)) \/ (Eq(growth, F(-1)) /\ n = 1) THEN "zero"
        ELSE "nonzero"

\* mutant: the deviation of no trade at all is 0
annualized_volatility_kind_empty0(net_trade_return) ==
    IF \A j, k \in 1..Len(net_trade_return) :
           Eq(net_trade_return[j], net_trade_return[k])
    THEN "zero"
    ELSE "nonzero"

\* net_trade_return.std() * np.sqrt(252): the deviation of an empty array is
\* NaN, that of equal values is 0
annualized_volatility_kind(net_trade_return) ==
    IF Len(net_trade_return) = 0 THEN "nan"
    ELSE IF \A j, k \in 1..Len(net_trade_return) :
                Eq(net_trade_return[j], net_trade_return[k])
    THEN "zero"
    ELSE "nonzero"

\* (annualized_return - 0.01) / annualized_volatility; the numerator is -0.01
\* when the return is zero and is never 0 otherwise
sharpe_kind(annualized_return, annualized_volatility) ==
    kind_div(IF annualized_return = "zero" THEN "nonzero" ELSE annualized_return,
             annualized_volatility)

\* annualized_return / ((-max_dd / 100) or np.nan)
calmar_kind(annualized_return, max_dd) ==
    LET depth == kind_of(Div(Neg(max_dd), F(100)))
    IN  kind_div(annualized_return, IF depth = "zero" THEN "nan" ELSE depth)

backtest_result(df, prediction, cash, fee) ==
    LET fr         == backtest_frame(df, prediction)
        index      == DOMAIN df["Open"]
        buy_col    == fillna(fr["buy_price"], F(0))
        sell_col   == fillna(fr["sell_price"], F(0))
        buy_dates  == NonZero(buy_col)
        sell_dates == NonZero(sell_col)
        buy_all    == Values(buy_col, buy_dates)
        sell_price == Values(sell_col, sell_dates)
        buy_cost   == DropTrailingBuy(buy_all, sell_price)
    IN  IF ~Broadcastable(sell_price, buy_cost)
           \/ BroadcastLen(sell_price, buy_cost) # Len(sell_dates)
        THEN [error |-> "ValueError"]
        ELSE
        LET trade_return     == trade_return_of(sell_price, buy_cost)
            net_trade_return == net_trade_return_of(trade_return, fee)
            odr == open_daily_return_col(df["Open"])
            sr  == strategy_return_col(fr["status"], odr)
            snr == strategy_net_return_col(sr, sell_dates, fee)
            strategy_return     == fillna(sr, F(0))
            strategy_net_return == fillna(snr, F(0))
            dd       == dd_of(strategy_net_return)
            episodes == compute_drawdown_duration_peaks(dd)
            max_dd   == max_dd_of(dd)
            annualized_return     == annualized_return_kind(strategy_net_return)
            annualized_volatility == annualized_volatility_kind(net_trade_return)
        IN  [error            |-> "none",
             status           |-> fr["status"],
             buy_dates        |-> buy_dates,
             sell_dates       |-> sell_dates,
             buy_cost         |-> buy_cost,
             sell_price       |-> sell_price,
             trade_return     |-> trade_return,
             net_trade_return |-> net_trade_return,
             trade_return_col     |-> PutAt(index, sell_dates, trade_return),
             net_trade_return_col |-> PutAt(index, sell_dates, net_trade_return),
             strategy_return      |-> strategy_return,
             strategy_net_return  |-> strategy_net_return,
             buy_and_hold_equity  |-> scaled(cumprod(plus1(fillna(odr, F(0)))), cash),
             strategy_equity      |-> scaled(cumprod(plus1(strategy_return)), cash),
             strategy_net_equity  |-> scaled(cumprod(plus1(strategy_net_return)), cash),
             trade_count      |-> Len(sell_dates),
             wins             |-> Cardinality({k \in 1..Len(net_trade_return) :
                                                 Gt(net_trade_return[k], F(0))}),
             dd               |-> dd,
             dd_dur           |-> episodes.duration,
             dd_peaks         |-> episodes.peak_dd,
             max_drawdown     |-> max_dd,
             avg_drawdown     |-> Mul(Neg(series_mean(episodes.peak_dd)), F(100)),
             max_drawdown_duration |-> series_max(episodes.duration),
             avg_drawdown_duration |-> series_mean(episodes.duration),
             annualized_return     |-> annualized_return,
             annualized_volatility |-> annualized_volatility,
             sharpe_ratio     |-> sharpe_kind(annualized_return, annualized_volatility),
             calmar_ratio     |-> calmar_kind(annualized_return, max_dd)]

-----------------------------------------------------------------------------
(* The back-test as a state machine: the caller builds a table of opens,   *)
(* then calls ml_backtest once.                                            *)

NoCall == [op |-> "none"]

NoRet == [error |-> "not called"]

Floats(S) == {F(n) : n \in S}

OpenTables == UNION {[{"Open"} -> [0..(n - 1) -> Floats(1..MaxOpen)]] : n \in 1..MaxBars}

\* the table of the documented scenario
ScenarioOpens == <<100, 102, 101, 105, 107>>

ScenarioTable == [c \in {"Open"} |-> [i \in 0..4 |-> F(ScenarioOpens[i + 1])]]

\* fee = 0 and the default fee 0.002
Fees == {F(0), <<2, 1000>>}

Predictions(df) == [DOMAIN df["Open"] -> {F(0), F(1)}]

InitBT ==
    /\ data \in OpenTables \cup {ScenarioTable}
    /\ call = NoCall
    /\ ret = NoRet
    /\ pc = "start"

ml_backtest ==
    /\ pc = "start"
    /\ "Open" \in DOMAIN data
    /\ \E prediction \in Predictions(data), fee \in Fees :
        /\ call' = [op |-> "ml_backtest", prediction |-> prediction,
                    cash |-> F(cash_default), fee |-> fee]
        /\ ret' = backtest_result(data, prediction, F(cash_default), fee)
        /\ data' = backtest_frame(data, prediction)
    /\ pc' = "done"

NextBT == ml_backtest

SpecBT == InitBT /\ [][NextBT]_vars

-----------------------------------------------------------------------------
(* Claims about ml_backtest *)

Done == pc = "done" /\ call.op = "ml_backtest"

Opens == data["Open"]

NBars == Length(data["Open"])

\* position(t) = signal(t-1), position(0) = 0
Position(t) == IF t = 0 THEN 0 ELSE IF call.prediction[t - 1] = F(1) THEN 1 ELSE 0

\* the bars where the position goes 0 -> 1, and those where it goes 1 -> 0
EntryBars == {t \in 1..(NBars - 1) : Position(t - 1) = 0 /\ Position(t) = 1}

ExitBars == {t \in 1..(NBars - 1) : Position(t - 1) = 1 /\ Position(t) = 0}

EntryBar(k) == Sorted(EntryBars)[k]

ExitBar(k) == Sorted(ExitBars)[k]

ScenarioPrediction == [i \in 0..4 |-> IF i <= 1 THEN F(1) ELSE F(0)]

ScenarioCall ==
    /\ Done
    /\ Opens = ScenarioTable["Open"]
    /\ call.prediction = ScenarioPrediction
    /\ call.fee = F(0)

\* C1: the k-th completed trade enters at the Open of the k-th 0->1 bar of the
\* position and exits at the Open of the k-th 1->0 bar; its gross return is
\* exit/entry - 1 and its net return is gross - fee; the documented scenario
\* (opens 100,102,101,105,107, signal 1,1,0,0,0, fee 0) gives exactly one
\* trade, entry 102, exit 105.
C1_TradePrices ==
    Done =>
        /\ ret.error = "none"
        /\ Len(ret.trade_return) = Cardinality(ExitBars)
        /\ Len(ret.net_trade_return) = Cardinality(ExitBars)
        /\ \A k \in 1..Cardinality(ExitBars) :
            /\ ret.buy_cost[k] = Opens[EntryBar(k)]
            /\ ret.sell_price[k] = Opens[ExitBar(k)]
            /\ Eq(ret.trade_return[k],
                  <<Opens[ExitBar(k)][1] - Opens[EntryBar(k)][1], Opens[EntryBar(k)][1]>>)
            /\ Eq(ret.net_trade_return[k], Sub(ret.trade_return[k], call.fee))
        /\ ScenarioCall =>
            /\ Len(ret.trade_return) = 1
            /\ ret.buy_cost = <<F(102)>>
            /\ ret.sell_price = <<F(105)>>
            /\ Eq(ret.trade_return[1], <<3, 102>>)

C1_Witness == ScenarioCall /\ ret.error = "none" /\ Len(ret.trade_return) = 1

\* C2: entry and exit events alternate strictly, starting with an entry; each
\* trade exits strictly after it enters; trades do not overlap and are ordered
\* by entry time; there are as many trade returns as sell dates.
C2_TradesAlternate ==
    Done =>
        /\ ret.error = "none"
        /\ Len(ret.buy_dates) \in {Len(ret.sell_dates), Len(ret.sell_dates) + 1}
        /\ \A k \in 1..Len(ret.sell_dates) : ret.buy_dates[k] < ret.sell_dates[k]
        /\ \A k \in 1..(Len(ret.buy_dates) - 1) : ret.sell_dates[k] < ret.buy_dates[k + 1]
        /\ Len(ret.trade_return) = Len(ret.sell_dates)
        /\ Len(ret.buy_cost) = Len(ret.sell_dates)
        /\ \A t \in DOMAIN ret.status :
            /\ (\E k \in 1..Len(ret.buy_dates) : ret.buy_dates[k] = t) <=> t \in EntryBars
            /\ (\E k \in 1..Len(ret.sell_dates) : ret.sell_dates[k] = t) <=> t \in ExitBars

C2_Witness == Done /\ ret.error = "none" /\ Len(ret.sell_dates) = 2 /\ Len(ret.buy_dates) = 2

\* C3: a position still open at the last bar leaves one entry more than
\* exits; exactly that last entry is dropped: it gives no trade return and is
\* not counted in '# Trades' or in the wins of the win rate, and every earlier
\* entry stays paired with its own exit.
OpenAtEnd == Position(NBars - 1) = 1

C3_DanglingEntryDropped ==
    (Done /\ OpenAtEnd) =>
        /\ ret.error = "none"
        /\ Cardinality(EntryBars) = Cardinality(ExitBars) + 1
        /\ Len(ret.buy_dates) = Cardinality(EntryBars)
        /\ ret.trade_count = Cardinality(ExitBars)
        /\ Len(ret.trade_return) = Cardinality(ExitBars)
        /\ Len(ret.buy_cost) = Cardinality(ExitBars)
        /\ \A k \in 1..Cardinality(ExitBars) :
            /\ ret.buy_cost[k] = Opens[EntryBar(k)]
            /\ ret.sell_price[k] = Opens[ExitBar(k)]
            /\ EntryBar(k) < ExitBar(k)
        /\ ret.trade_return_col[EntryBar(Cardinality(EntryBars))] = F(0)
        /\ \A t \in DOMAIN ret.trade_return_col :
            t \notin ExitBars => ret.trade_return_col[t] = F(0)
        /\ ret.wins = Cardinality({k \in 1..Cardinality(ExitBars) :
                         Gt(Sub(Div(Opens[ExitBar(k)], Opens[EntryBar(k)]), F(1)), call.fee)})

C3_Witness ==
    /\ Done
    /\ OpenAtEnd
    /\ ret.error = "none"
    /\ Len(ret.trade_return) = 1
    /\ Len(ret.buy_dates) = 2
    /\ ret.buy_cost[1] # Opens[EntryBar(2)]

ZeroSignal == \A t \in DOMAIN call.prediction : call.prediction[t] = F(0)

\* C13: with a signal of all zeros ml_backtest raises no error, has no entry
\* and no exit (# Trades = 0), keeps the gross and the net strategy equity at
\* the initial cash at every bar, and reports a Sharpe ratio and a Calmar
\* ratio that are NaN.
C13_ZeroSignal ==
    (Done /\ ZeroSignal) =>
        /\ ret.error = "none"
        /\ ret.buy_dates = <<>>
        /\ ret.sell_dates = <<>>
        /\ ret.trade_count = 0
        /\ \A t \in DOMAIN Opens :
              /\ Eq(ret.strategy_equity[t], call.cash)
              /\ Eq(ret.strategy_net_equity[t], call.cash)
        /\ ret.sharpe_ratio = "nan"
        /\ ret.calmar_ratio = "nan"

\* an all-zero signal on moving prices, with a fee
C13_Witness ==
    /\ Done
    /\ ZeroSignal
    /\ NBars >= 3
    /\ Ne(Opens[0], Opens[1])
    /\ Gt(call.fee, F(0))
    /\ ret.trade_count = 0
    /\ ret.sharpe_ratio = "nan"

\* the lowest drawdown of the compounded strategy-net wealth
WealthDrawdownMin ==
    LET wdd == simple_drawdown(ret.strategy_net_return, call.cash).drawdown
    IN  Neg(series_max([t \in DOMAIN wdd |-> Neg(wdd[t])]))

\* C15: "Max. Drawdown [%]" is 100 times the minimum of the drawdown of the
\* compounded strategy-net wealth (wealth = cash * cumprod(1 + net return),
\* against its running peak).
C15_MaxDrawdownOfWealth ==
    (Done /\ ret.error = "none") =>
        Eq(ret.max_drawdown, Mul(F(100), WealthDrawdownMin))

\* position(t-1) * (Open[t] / Open[t-1] - 1), 0 at the first bar
GrossReturn(t) ==
    IF t = 0 THEN F(0)
    ELSE Mul(F(Position(t - 1)), Sub(Div(Opens[t], Opens[t - 1]), F(1)))

\* C16: the gross strategy return of bar t is
\* position(t-1) * (Open[t]/Open[t-1] - 1), 0 at the first bar; the net
\* return is the gross one less the fee on the exit bars and equals the gross
\* one on every other bar (entry and holding bars carry no fee).
C16_PerBarReturns ==
    (Done /\ ret.error = "none") =>
        \A t \in DOMAIN Opens :
            /\ Eq(ret.strategy_return[t], GrossReturn(t))
            /\ Eq(ret.strategy_net_return[t],
                  IF t \in ExitBars THEN Sub(GrossReturn(t), call.fee)
                  ELSE GrossReturn(t))

\* a trade with a fee that is entered, held over a price move and exited
C16_Witness ==
    /\ Done
    /\ ret.error = "none"
    /\ Gt(call.fee, F(0))
    /\ \E e \in EntryBars, x \in ExitBars :
          /\ e + 1 < x
          /\ \A t \in e..(x - 1) : Position(t) = 1
          /\ Ne(ret.strategy_return[e + 1], F(0))
          /\ Eq(ret.strategy_net_return[e + 1], ret.strategy_return[e + 1])
          /\ Eq(ret.strategy_net_return[e], ret.strategy_return[e])
          /\ Eq(ret.strategy_net_return[x], Sub(ret.strategy_return[x], call.fee))

BelowPeak(dd, t) == ~Eq(dd[t], F(0))

\* the maximal runs a..b of below-peak bars that have an at-peak bar just
\* before them
PrecededRuns(dd) ==
    {run \in (DOMAIN dd) \X (DOMAIN dd) :
        /\ 1 <= run[1]
        /\ run[1] <= run[2]
        /\ \A t \in run[1]..run[2] : BelowPeak(dd, t)
        /\ ~BelowPeak(dd, run[1] - 1)
        /\ (run[2] + 1) \in DOMAIN dd => ~BelowPeak(dd, run[2] + 1)}

\* the bar that ends a run: the at-peak bar after it, or the final bar
RunEnd(dd, run) == IF (run[2] + 1) \in DOMAIN dd THEN run[2] + 1 ELSE run[2]

\* C17: _compute_drawdown_duration_peaks reports one episode for every
\* maximal run of below-peak bars (drawdown != 0), a run still open at the
\* final bar and a run of one bar included, and nothing else; the duration of
\* an episode is the time from the at-peak bar just before the run to the bar
\* that ends it; with no such run the durations and depths are all NaN.
C17_OneEpisodePerRun ==
    (Done /\ ret.error = "none") =>
        /\ \A run \in PrecededRuns(ret.dd) :
              Eq(ret.dd_dur[RunEnd(ret.dd, run)],
                 F(RunEnd(ret.dd, run) - (run[1] - 1)))
        /\ \A t \in DOMAIN ret.dd :
              ~isnan(ret.dd_dur[t]) =>
                  \E run \in PrecededRuns(ret.dd) : RunEnd(ret.dd, run) = t
        /\ PrecededRuns(ret.dd) = {} =>
              \A t \in DOMAIN ret.dd : isnan(ret.dd_dur[t]) /\ isnan(ret.dd_peaks[t])

RECURSIVE ProdOver(_, _, _)
\* the product of f[a], ..., f[b]
ProdOver(f, a, b) == IF a > b THEN F(1) ELSE Mul(ProdOver(f, a, b - 1), f[b])

\* C18: for every 0/1 signal and positive opens, the gross strategy returns
\* of the bars of a completed trade, from the bar after the entry through the
\* exit bar, compound to exitPrice/entryPrice; with no position open at the
\* last bar the final gross strategy equity is the cash times the product of
\* (1 + gross trade return) over all trades.
C18_TradesCompound ==
    (Done /\ ret.error = "none") =>
        /\ \A k \in 1..Len(ret.sell_dates) :
              Eq(ProdOver(plus1(ret.strategy_return), EntryBar(k) + 1, ExitBar(k)),
                 Div(Opens[ExitBar(k)], Opens[EntryBar(k)]))
        /\ ~OpenAtEnd =>
              Eq(ret.strategy_equity[NBars - 1],
                 Mul(call.cash, ProdOver(plus1(ret.trade_return), 1, Len(ret.trade_return))))

\* a completed trade held over two bars of changing prices, and no position
\* at the last bar
C18_Witness ==
    /\ Done
    /\ ret.error = "none"
    /\ ~OpenAtEnd
    /\ \E k \in 1..Len(ret.sell_dates) :
          /\ ExitBar(k) = EntryBar(k) + 2
          /\ Ne(ret.strategy_return[EntryBar(k) + 1], F(0))
          /\ Ne(ret.strategy_return[ExitBar(k)], F(0))
          /\ Ne(ret.trade_return[k], F(0))
    /\ Ne(ret.strategy_equity[NBars - 1], call.cash)

-----------------------------------------------------------------------------
(* triple_barrier *)

Last(s) == s[Length(s) - 1]

\* (s / s[0] > ub) | (s / s[0] < lb): the positions of the window past a barrier
BarrierMask(s, ub, lb) ==
    {k \in DOMAIN s : Gt(Div(s[k], s[0]), ub) \/ Lt(Div(s[k], s[0]), lb)}

\* mutant: the last bar past a barrier decides, not the first
end_price_last(s, ub, lb) ==
    LET hit == BarrierMask(s, ub, lb)
    IN  Div(IF hit = {} THEN Last(s) ELSE s[Max(hit)], s[0])

\* np.append(s[mask], s[-1])[0] / s[0]
end_price(s, ub, lb) ==
    LET hit == BarrierMask(s, ub, lb)
    IN  Div(IF hit = {} THEN Last(s) ELSE s[Min(hit)], s[0])

\* np.append(r[mask], max_period - 1)[0]
end_time(s, ub, lb, max_period) ==
    LET hit == BarrierMask(s, ub, lb)
    IN  F(IF hit = {} THEN max_period - 1 ELSE Min(hit))

\* the window of price.rolling(max_period) that ends at bar i
Window(price, i, max_period) == [k \in 0..(max_period - 1) |-> price[i - max_period + 1 + k]]

\* price.rolling(max_period).apply(end_price, raw=True)
rolling_end_price(price, ub, lb, max_period) ==
    [i \in DOMAIN price |->
        IF i >= max_period - 1 THEN end_price(Window(price, i, max_period), ub, lb)
        ELSE NaN]

\* price.rolling(max_period).apply(end_time, raw=True)
rolling_end_time(price, ub, lb, max_period) ==
    [i \in DOMAIN price |->
        IF i >= max_period - 1 THEN end_time(Window(price, i, max_period), ub, lb, max_period)
        ELSE NaN]

\* mutant: the rolling result stays on the last bar of its window
barrier_profit_unshifted(price, ub, lb, max_period) ==
    rolling_end_price(price, ub, lb, max_period)

\* p = price.rolling(max_period).apply(end_price, raw=True).shift(-max_period+1)
barrier_profit(price, ub, lb, max_period) ==
    shift(rolling_end_price(price, ub, lb, max_period), -max_period + 1)

\* t: the bar of the exit, t.index[int(k+i)], for the bars that have a window
\* (dropna); the frame's fillna(0) fills the others
barrier_sell_time(price, ub, lb, max_period) ==
    LET t == shift(rolling_end_time(price, ub, lb, max_period), -max_period + 1)
    IN  [i \in DOMAIN price |-> IF isnan(t[i]) THEN F(0) ELSE F(t[i][1] + i)]

\* signal = 0; signal.loc[p > ub] = 1.0; signal.loc[p < lb] = -1.0
barrier_signal(p, ub, lb) ==
    [i \in DOMAIN p |-> IF Lt(p[i], lb) THEN F(-1)
                        ELSE IF Gt(p[i], ub) THEN F(1)
                        ELSE F(0)]

\* Series.pct_change(periods)
pct_change(s, periods) == [i \in DOMAIN s |-> Sub(Div(s[i], shift(s, periods)[i]), F(1))]

\* lambda x: math.copysign(1, x)
sign(x) == IF x[1] < 0 THEN F(-1) ELSE F(1)

\* the binary_signal column of two-class mode
binary_signal_of(signal, d_returns) ==
    [i \in DOMAIN signal |->
        convert(IF Eq(signal[i], F(0)) THEN sign(d_returns[i]) ELSE signal[i])]

\* the frame triple_barrier returns
triple_barrier_result(df, ub, lb, max_period, two_class) ==
    LET price  == df["Close"]
        p      == barrier_profit(price, ub, lb, max_period)
        signal == barrier_signal(p, ub, lb)
        d_ret  == fillna(pct_change(price, max_period), F(0))
        base   == [error                    |-> "none",
                   triple_barrier_profit    |-> fillna(p, F(0)),
                   triple_barrier_sell_time |-> barrier_sell_time(price, ub, lb, max_period),
                   triple_barrier_signal    |-> signal,
                   d_returns                |-> d_ret]
    IN  IF two_class
        THEN [c \in DOMAIN base \cup {"binary_signal"} |->
                 IF c = "binary_signal" THEN binary_signal_of(signal, d_ret) ELSE base[c]]
        ELSE base

CloseTables ==
    UNION {[{"Close"} -> [0..(n - 1) -> Floats(1..MaxClose)]] : n \in 1..MaxLen}

\* <<ub, lb>>: the defaults of generate_label (1.07, 0.97), a wide pair, and a
\* pair below 1 (the start bar itself is then above ub)
Barriers == {<< <<107, 100>>, <<97, 100>> >>, << <<160, 100>>, <<60, 100>> >>,
             << <<90, 100>>, <<80, 100>> >>}

InitTB ==
    /\ data \in CloseTables
    /\ call = NoCall
    /\ ret = NoRet
    /\ pc = "start"

triple_barrier ==
    /\ pc = "start"
    /\ "Close" \in DOMAIN data
    /\ \E b \in Barriers, max_period \in 1..MaxPeriod, two_class \in BOOLEAN :
        /\ call' = [op |-> "triple_barrier", ub |-> b[1], lb |-> b[2],
                    max_period |-> max_period, two_class |-> two_class]
        /\ ret' = triple_barrier_result(data, b[1], b[2], max_period, two_class)
    /\ pc' = "done"
    /\ UNCHANGED data

NextTB == triple_barrier

SpecTB == InitTB /\ [][NextTB]_vars

-----------------------------------------------------------------------------
(* Claims about triple_barrier *)

DoneTB == pc = "done" /\ call.op = "triple_barrier"

Closes == data["Close"]

NClose == Length(data["Close"])

\* close[t] as an integer
CloseAt(t) == data["Close"][t][1]

\* close[t+k]/close[t] is above ub, is below lb
Above(t, k) == CloseAt(t + k) * call.ub[2] > call.ub[1] * CloseAt(t)

Below(t, k) == CloseAt(t + k) * call.lb[2] < call.lb[1] * CloseAt(t)

Crossings(t) == {k \in 0..(call.max_period - 1) : Above(t, k) \/ Below(t, k)}

FullWindow(t) == t + call.max_period - 1 <= NClose - 1

\* C4: for a start bar with a full window the first bar past a barrier
\* decides the signed label: +1 above ub, -1 below lb, whatever happens later
\* in the window; with no crossing the exit ratio is that of the last bar of
\* the window and the label is 0.
C4_FirstCrossingDecides ==
    DoneTB =>
        \A t \in 0..(NClose - 1) : FullWindow(t) =>
            IF Crossings(t) # {}
            THEN LET k0 == Min(Crossings(t))
                 IN  /\ Above(t, k0) => ret.triple_barrier_signal[t] = F(1)
                     /\ Below(t, k0) => ret.triple_barrier_signal[t] = F(-1)
                     /\ Eq(ret.triple_barrier_profit[t], <<CloseAt(t + k0), CloseAt(t)>>)
                     /\ ret.triple_barrier_sell_time[t] = F(t + k0)
            ELSE /\ Eq(ret.triple_barrier_profit[t], <<CloseAt(t + call.max_period - 1), CloseAt(t)>>)
                 /\ ret.triple_barrier_signal[t] = F(0)
                 /\ ret.triple_barrier_sell_time[t] = F(t + call.max_period - 1)

\* a window whose first crossing is below lb and which is above ub later on
C4_Witness ==
    /\ DoneTB
    /\ \E t \in 0..(NClose - 1) :
        /\ FullWindow(t)
        /\ Crossings(t) # {}
        /\ Below(t, Min(Crossings(t)))
        /\ \E k \in Crossings(t) : Above(t, k)
        /\ ret.triple_barrier_signal[t] = F(-1)

\* C5 (as claimed): in two-class mode a bar whose signed label is 0 gets the
\* sign of the max_period-bar forward return, close[t+max_period] against
\* close[t], and the result is collapsed to 1 for +1 and 0 otherwise.
C5_ForwardReturnSign ==
    (DoneTB /\ call.two_class) =>
        \A t \in 0..(NClose - 1) :
            /\ ret.triple_barrier_signal[t] = F(1) => ret.binary_signal[t] = F(1)
            /\ ret.triple_barrier_signal[t] = F(-1) => ret.binary_signal[t] = F(0)
            /\ (ret.triple_barrier_signal[t] = F(0) /\ t + call.max_period <= NClose - 1) =>
                   (ret.binary_signal[t] = F(1) <=> CloseAt(t + call.max_period) > CloseAt(t))

NonZeroLabels == {t \in 0..(NClose - 1) : ret.triple_barrier_signal[t] # F(0)}

LabelRanges ==
    /\ \A t \in 0..(NClose - 1) : ret.triple_barrier_signal[t] \in {F(-1), F(0), F(1)}
    /\ call.two_class => \A t \in 0..(NClose - 1) : ret.binary_signal[t] \in {F(0), F(1)}
    /\ \A t \in 0..(NClose - 1) :
          t > NClose - call.max_period => ret.triple_barrier_signal[t] = F(0)

-----------------------------------------------------------------------------
(* fixed_time_horizon (standardized=False; the standardized branch divides  *)
(* by a rolling standard deviation, which is no rational, and is left out)  *)

\* mutant: the return over the past look_forward bars, not the coming ones
forward_return_of_backward(close, look_forward) == pct_change(close, look_forward)

\* close.pct_change(periods=look_forward).shift(-look_forward)
forward_return_of(close, look_forward) == shift(pct_change(close, look_forward), -look_forward)

\* mutant: 0 between the thresholds, as the docstring of the function has it
fth_label_zero(fr, threshold) ==
    IF Gt(fr, threshold) THEN F(1)
    ELSE IF Le(fr, threshold) /\ Ge(fr, Neg(threshold)) THEN F(0)
    ELSE IF Lt(fr, Neg(threshold)) THEN F(-1)
    ELSE NaN

\* np.select(conditions, [1, np.nan, -1], default=np.nan): the first condition
\* that holds decides
fth_label(fr, threshold) ==
    IF Gt(fr, threshold) THEN F(1)
    ELSE IF Le(fr, threshold) /\ Ge(fr, Neg(threshold)) THEN NaN
    ELSE IF Lt(fr, Neg(threshold)) THEN F(-1)
    ELSE NaN

fixed_time_horizon_result(df, threshold, look_forward) ==
    LET forward_return == forward_return_of(df["Close"], look_forward)
    IN  [error   |-> "none",
         warning |-> look_forward >= Length(forward_return),
         labels  |-> [i \in DOMAIN forward_return |-> fth_label(forward_return[i], threshold)]]

CloseTables3 == [c \in {"Close"} |-> [i \in 0..2 |-> F(<<100, 106, 100>>[i + 1])]]

\* 0, the documented 0.05, a wide 0.4 and a negative threshold
Thresholds == {F(0), <<5, 100>>, <<40, 100>>, <<-40, 100>>}

InitFTH ==
    /\ data \in CloseTables \cup {CloseTables3}
    /\ call = NoCall
    /\ ret = NoRet
    /\ pc = "start"

fixed_time_horizon ==
    /\ pc = "start"
    /\ "Close" \in DOMAIN data
    /\ \E threshold \in Thresholds, look_forward \in 1..MaxLookForward :
        /\ call' = [op |-> "fixed_time_horizon", threshold |-> threshold,
                    look_forward |-> look_forward, standardized |-> FALSE]
        /\ ret' = fixed_time_horizon_result(data, threshold, look_forward)
    /\ pc' = "done"
    /\ UNCHANGED data

NextFTH == fixed_time_horizon

SpecFTH == InitFTH /\ [][NextFTH]_vars

-----------------------------------------------------------------------------
(* generate_label, method "PDM" *)

\* Series/DataFrame.ffill(): a NaN takes the last value before it that is not NaN
ffill(s) ==
    [i \in DOMAIN s |->
        LET prev == {j \in DOMAIN s : j <= i /\ ~isnan(s[j])}
        IN  IF prev = {} THEN NaN ELSE s[Max(prev)]]

\* np.where(data.Close.shift(-prediction_delay) > data.Close, 1.0, 0.0)
trend_col(close, prediction_delay) ==
    [i \in DOMAIN close |->
        IF Gt(shift(close, -prediction_delay)[i], close[i]) THEN F(1) ELSE F(0)]

\* data = data.ffill() on every column of the local frame
ffill_frame(df) == [col \in DOMAIN df |-> ffill(df[col])]

InitPDM ==
    /\ data \in CloseTables
    /\ call = NoCall
    /\ ret = NoRet
    /\ pc = "start"

\* line 367 adds the column to the caller's frame; line 368 rebinds the local name
generate_label_PDM ==
    /\ pc = "start"
    /\ "Close" \in DOMAIN data
    /\ \E prediction_delay \in 1..MaxDelay :
        /\ call' = [op |-> "generate_label", method |-> "PDM",
                    prediction_delay |-> prediction_delay]
        /\ data' = SetCol(data, "trend", trend_col(data["Close"], prediction_delay))
        /\ ret' = [error |-> "none", signal |-> ffill_frame(data')["trend"]]
    /\ pc' = "done"

NextPDM == generate_label_PDM

SpecPDM == InitPDM /\ [][NextPDM]_vars

-----------------------------------------------------------------------------
(* absolute_turning_points and the turning-point labels of generate_label *)

NEUTRAL == 0
RISING == 1
FALLING == 2

get_state(a, b) == IF Lt(a, b) THEN RISING ELSE IF Gt(a, b) THEN FALLING ELSE NEUTRAL

\* mutant: the scan starts in the FALLING state whatever the first two closes
atp_begin_falling(array) ==
    [i |-> 2, ps |-> FALLING, begin |-> 1, idx_min |-> <<>>, idx_max |-> <<>>]

\* the locals before the loop: ps = get_state(array[0], array[1]); begin = 1
atp_begin(array) ==
    [i |-> 2, ps |-> get_state(array[0], array[1]), begin |-> 1,
     idx_min |-> <<>>, idx_max |-> <<>>]

\* mutant: a turning point is put at the bar of the flip, not on the plateau
atp_iter_flipbar(array, st) ==
    LET i == st.i
        s == get_state(array[i - 1], array[i])
    IN  IF s # NEUTRAL
        THEN LET flip == st.ps # NEUTRAL /\ st.ps # s
             IN  [i |-> i + 1, ps |-> s, begin |-> i,
                  idx_min |-> IF flip /\ s # FALLING THEN Append(st.idx_min, i)
                              ELSE st.idx_min,
                  idx_max |-> IF flip /\ s = FALLING THEN Append(st.idx_max, i)
                              ELSE st.idx_max]
        ELSE [st EXCEPT !.i = i + 1]

\* one pass of the body of `for i in range(2, len(array))`, at i = st.i
atp_iter(array, st) ==
    LET i == st.i
        s == get_state(array[i - 1], array[i])
    IN  IF s # NEUTRAL
        THEN LET flip == st.ps # NEUTRAL /\ st.ps # s
                 mid  == (st.begin + i - 1) \div 2
             IN  [i |-> i + 1, ps |-> s, begin |-> i,
                  idx_min |-> IF flip /\ s # FALLING THEN Append(st.idx_min, mid)
                              ELSE st.idx_min,
                  idx_max |-> IF flip /\ s = FALLING THEN Append(st.idx_max, mid)
                              ELSE st.idx_max]
        ELSE [st EXCEPT !.i = i + 1]

RECURSIVE atp_scan(_, _)
\* the loop `for i in range(2, len(array))` from the locals st on
atp_scan(array, st) ==
    IF st.i > Length(array) - 1 THEN [idx_min |-> st.idx_min, idx_max |-> st.idx_max]
    ELSE atp_scan(array, atp_iter(array, st))

absolute_turning_points(df) ==
    LET array == df["Close"]
    IN  IF Length(array) < 3 THEN [idx_min |-> <<>>, idx_max |-> <<>>]
        ELSE atp_scan(array, atp_begin(array))

\* signal.iloc[idx] = v
iloc_set(s, idx, v) ==
    [i \in DOMAIN s |-> IF \E k \in 1..Len(idx) : idx[k] = i THEN v ELSE s[i]]

\* mutant: bars before the first turning point get 0
turning_point_signal_default0(index, idx_min, idx_max) ==
    LET s0 == [i \in index |-> NaN]
        s1 == iloc_set(s0, idx_max, F(-1))
        s2 == iloc_set(s1, idx_min, F(1))
        s3 == fillna(ffill(s2), F(0))
    IN  [i \in index |-> convert(s3[i])]

\* signal = NaN; iloc[idx_max] = -1; iloc[idx_min] = 1; ffill; fillna(1); convert
turning_point_signal(index, idx_min, idx_max) ==
    LET s0 == [i \in index |-> NaN]
        s1 == iloc_set(s0, idx_max, F(-1))
        s2 == iloc_set(s1, idx_min, F(1))
        s3 == fillna(ffill(s2), F(1))
    IN  [i \in index |-> convert(s3[i])]

\* What relative_turning_points can return: at each bar i >= 1 the loop appends
\* i to bottoms, or else to tops, or to neither.  The values of the cubic
\* interpolant are not modelled: every such pair of lists is allowed.
TurningPointLists(n) ==
    {[bottoms |-> Sorted(B), tops |-> Sorted(T)] :
        <<B, T>> \in {bt \in (SUBSET (1..(n - 1))) \X (SUBSET (1..(n - 1))) :
                         bt[1] \cap bt[2] = {}}}

\* interp1d(kind='cubic') needs four sample points, so at least four bars
MinCubicPoints == 4

CloseTablesTP ==
    UNION {[{"Close"} -> [0..(n - 1) -> Floats(1..MaxCloseTP)]] : n \in 1..MaxLenTP}

InitTP ==
    /\ data \in CloseTablesTP
    /\ call = NoCall
    /\ ret = NoRet
    /\ pc = "start"

generate_label_ATP ==
    /\ pc = "start"
    /\ "Close" \in DOMAIN data
    /\ LET tp == absolute_turning_points(data)
       IN  /\ call' = [op |-> "generate_label", method |-> "ATP"]
           /\ ret' = [error   |-> "none",
                      idx_min |-> tp.idx_min,
                      idx_max |-> tp.idx_max,
                      signal  |-> turning_point_signal(DOMAIN data["Close"],
                                                       tp.idx_min, tp.idx_max)]
    /\ pc' = "done"
    /\ UNCHANGED data

generate_label_RTP ==
    /\ pc = "start"
    /\ "Close" \in DOMAIN data
    /\ call' = [op |-> "generate_label", method |-> "RTP"]
    /\ IF Length(data["Close"]) < MinCubicPoints
       THEN ret' = [error |-> "ValueError"]
       ELSE \E tp \in TurningPointLists(Length(data["Close"])) :
               ret' = [error   |-> "none",
                       idx_min |-> tp.bottoms,
                       idx_max |-> tp.tops,
                       signal  |-> turning_point_signal(DOMAIN data["Close"],
                                                        tp.bottoms, tp.tops)]
    /\ pc' = "done"
    /\ UNCHANGED data

NextTP == generate_label_ATP \/ generate_label_RTP

SpecTP == InitTP /\ [][NextTP]_vars

-----------------------------------------------------------------------------
(* generate_label, method "ATP", with the scan of absolute_turning_points   *)
(* taken one bar at a time: while pc = "scan", ret holds the locals of      *)
(* the scan (i, ps, begin, idx_min, idx_max).                               *)

RECURSIVE Walks(_)
\* The scan only compares neighbouring closes, so the tables are the series
\* in which each close is one below, equal to, or one above the close before.
Walks(n) ==
    IF n = 0 THEN {<<>>}
    ELSE IF n = 1 THEN {<<MaxLenATP>>}
    ELSE {Append(w, w[Len(w)] + d) : w \in Walks(n - 1), d \in {-1, 0, 1}}

CloseWalks ==
    {[Close |-> [i \in 0..(Len(w) - 1) |-> F(w[i + 1])]] :
        w \in UNION {Walks(n) : n \in 0..MaxLenATP}}

InitATP ==
    /\ data \in CloseWalks
    /\ call = NoCall
    /\ ret = NoRet
    /\ pc = "start"

atp_labels(index, idx_min, idx_max) ==
    [error   |-> "none",
     idx_min |-> idx_min,
     idx_max |-> idx_max,
     signal  |-> turning_point_signal(index, idx_min, idx_max)]

\* generate_label(method="ATP") enters absolute_turning_points
atp_call ==
    /\ pc = "start"
    /\ "Close" \in DOMAIN data
    /\ call' = [op |-> "generate_label", method |-> "ATP"]
    /\ IF Length(data["Close"]) < 3
       THEN /\ ret' = atp_labels(DOMAIN data["Close"], <<>>, <<>>)
            /\ pc' = "done"
       ELSE /\ ret' = atp_begin(data["Close"])
            /\ pc' = "scan"
    /\ UNCHANGED data

atp_loop ==
    /\ pc = "scan"
    /\ ret.i <= Length(data["Close"]) - 1
    /\ ret' = atp_iter(data["Close"], ret)
    /\ UNCHANGED <<data, call, pc>>

\* the loop is over: the two lists are returned and turned into labels
atp_return ==
    /\ pc = "scan"
    /\ ret.i > Length(data["Close"]) - 1
    /\ ret' = atp_labels(DOMAIN data["Close"], ret.idx_min, ret.idx_max)
    /\ pc' = "done"
    /\ UNCHANGED <<data, call>>

NextATP == atp_call \/ atp_loop \/ atp_return

SpecATP == InitATP /\ [][NextATP]_vars

-----------------------------------------------------------------------------
(* drawdown as a state machine: the caller builds a series of returns, then *)
(* calls drawdown once.                                                     *)

ReturnValues == {Norm(k, 2) : k \in (-MaxLoss2)..MaxGain2} \cup {NaN}

ReturnTables ==
    UNION {{[Return |-> col] : col \in [0..(n - 1) -> ReturnValues]} : n \in 0..MaxLenDD}

InitDD ==
    /\ data \in ReturnTables
    /\ call = NoCall
    /\ ret = NoRet
    /\ pc = "start"

risk_kit_drawdown ==
    /\ pc = "start"
    /\ "Return" \in DOMAIN data
    /\ call' = [op |-> "drawdown", cash |-> F(cash_default)]
    /\ ret' = [error |-> "none"] @@ drawdown(data["Return"], F(cash_default))
    /\ pc' = "done"
    /\ UNCHANGED data

NextDD == risk_kit_drawdown

SpecDD == InitDD /\ [][NextDD]_vars

-----------------------------------------------------------------------------
(* The whole program: the caller holds one price table and makes one call *)

Init == InitBT \/ InitTB \/ InitFTH \/ InitPDM \/ InitTP \/ InitDD

Next == NextBT \/ NextTB \/ NextFTH \/ NextPDM \/ NextTP \/ NextDD

Spec == Init /\ [][Next]_vars

-----------------------------------------------------------------------------
(* Claims about fixed_time_horizon *)

DoneFTH == pc = "done" /\ call.op = "fixed_time_horizon"

\* close[t+look_forward]/close[t] - 1 is above threshold, is below -threshold
ReturnAbove(t) ==
    (CloseAt(t + call.look_forward) - CloseAt(t)) * call.threshold[2]
        > call.threshold[1] * CloseAt(t)

ReturnBelow(t) ==
    (CloseAt(t + call.look_forward) - CloseAt(t)) * call.threshold[2]
        < -call.threshold[1] * CloseAt(t)

ScenarioFTH ==
    /\ DoneFTH
    /\ data = CloseTables3
    /\ call.look_forward = 1
    /\ call.threshold = <<5, 100>>

\* C9 (as claimed): look_forward=1, threshold=0.05, closes [100,106,100]
\* give label[0] = +1, label[1] undefined, label[2] undefined.
C9_ScenarioOriginal ==
    ScenarioFTH =>
        /\ ret.labels[0] = F(1)
        /\ ret.labels[1] = NaN
        /\ ret.labels[2] = NaN

\* C9 (amended): the same call gives label[0] = +1, label[1] = -1 (bar 1 has
\* bar 2 after it, and 100/106 - 1 is below -0.05), label[2] undefined.
C9_Scenario ==
    ScenarioFTH =>
        /\ ret.labels[0] = F(1)
        /\ ret.labels[1] = F(-1)
        /\ ret.labels[2] = NaN

C9_Witness == ScenarioFTH /\ ret.error = "none" /\ ret.labels[1] = F(-1)

-----------------------------------------------------------------------------
(* Claims about generate_label *)

DonePDM == pc = "done" /\ call.op = "generate_label" /\ call.method = "PDM"

\* C8 (as claimed): label[t] = 1 if close[t+delay] > close[t] else 0 where
\* t+delay is inside the series, and each of the last `delay` bars carries
\* the label of the last determinable bar, len-delay-1.
C8_PredictionDelayFilled ==
    DonePDM =>
        \A t \in 0..(NClose - 1) :
            IF t + call.prediction_delay <= NClose - 1
            THEN ret.signal[t] =
                    (IF CloseAt(t + call.prediction_delay) > CloseAt(t) THEN F(1) ELSE F(0))
            ELSE NClose - call.prediction_delay - 1 >= 0 =>
                    ret.signal[t] = ret.signal[NClose - call.prediction_delay - 1]

DoneTP == pc = "done" /\ call.op = "generate_label" /\ call.method \in {"ATP", "RTP"}

Elements(list) == {list[k] : k \in 1..Len(list)}

\* the turning points at or before bar t
TurningPointsUpTo(t) == {i \in Elements(ret.idx_min) \cup Elements(ret.idx_max) : i <= t}

\* C10: every bar has the label of the most recent turning point at or
\* before it, 0 for a maximum and 1 for a minimum, and 1 before the first
\* turning point; the labels are 0 or 1.
C10_TurningPointLabels ==
    (DoneTP /\ ret.error = "none") =>
        \A t \in 0..(NClose - 1) :
            /\ ret.signal[t] \in {F(0), F(1)}
            /\ IF TurningPointsUpTo(t) = {} THEN ret.signal[t] = F(1)
               ELSE LET m == Max(TurningPointsUpTo(t))
                    IN  /\ m \in Elements(ret.idx_max) => ret.signal[t] = F(0)
                        /\ m \in Elements(ret.idx_min) => ret.signal[t] = F(1)

\* absolute turning points: a maximum, then a minimum, after a first bar
\* that precedes both
C10_Witness ==
    /\ DoneTP
    /\ call.method = "ATP"
    /\ ret.error = "none"
    /\ Len(ret.idx_max) >= 1
    /\ Len(ret.idx_min) >= 1
    /\ ret.signal[0] = F(1)
    /\ \E t, u \in 0..(NClose - 1) : t < u /\ ret.signal[t] = F(0) /\ ret.signal[u] = F(1)

-----------------------------------------------------------------------------
(* Claims about absolute_turning_points *)

DoneATP == pc = "done" /\ call.op = "generate_label" /\ call.method = "ATP"

StrictlyIncreasing(col) ==
    \A t \in DOMAIN col : t + 1 \in DOMAIN col => Lt(col[t], col[t + 1])

\* C11: on a strictly increasing close series of any length,
\* absolute_turning_points returns no minimum and no maximum, and the "ATP"
\* label is 1 at every bar.
C11_IncreasingSeries ==
    (DoneATP /\ StrictlyIncreasing(data["Close"])) =>
        /\ ret.error = "none"
        /\ ret.idx_min = <<>>
        /\ ret.idx_max = <<>>
        /\ \A t \in DOMAIN data["Close"] : ret.signal[t] = F(1)

\* a strictly increasing series long enough for the scan loop to run twice
C11_Witness ==
    /\ DoneATP
    /\ StrictlyIncreasing(data["Close"])
    /\ Length(data["Close"]) >= 4
    /\ ret.idx_min = <<>>
    /\ ret.signal[Length(data["Close"]) - 1] = F(1)

\* the indices a scan has emitted so far, of both kinds
Emitted(st) == Elements(st.idx_min) \cup Elements(st.idx_max)

\* the kind of the turning point with the largest index emitted so far
LastKind(st) ==
    IF Emitted(st) = {} THEN "none"
    ELSE IF \E m \in Elements(st.idx_max) : \A k \in Emitted(st) : k <= m THEN "max"
    ELSE "min"

\* what one pass of the loop appended to a list
Appended(old, new) == SubSeq(new, Len(old) + 1, Len(new))

IsPrefix(old, new) == Len(old) <= Len(new) /\ SubSeq(new, 1, Len(old)) = old

\* bar m lies on the run of equal closes that ends at bar last
OnPlateau(col, m, last) ==
    /\ m \in DOMAIN col
    /\ m <= last
    /\ \A j \in m..last : Eq(col[j], col[m])

NoHigherNeighbour(col, m) ==
    \A j \in {m - 1, m + 1} \cap DOMAIN col : Le(col[j], col[m])

NoLowerNeighbour(col, m) ==
    \A j \in {m - 1, m + 1} \cap DOMAIN col : Ge(col[j], col[m])

\* one pass of the loop, from the locals st at bar st.i to the locals st2
EmissionInOrder(col, st, st2) ==
    LET new_max == Appended(st.idx_max, st2.idx_max)
        new_min == Appended(st.idx_min, st2.idx_min)
    IN  /\ IsPrefix(st.idx_max, st2.idx_max)
        /\ IsPrefix(st.idx_min, st2.idx_min)
        /\ Len(new_max) + Len(new_min) <= 1
        /\ \A m \in Elements(new_max) :
              /\ LastKind(st) # "max"
              /\ \A k \in Emitted(st) : k < m
              /\ OnPlateau(col, m, st.i - 1)
              /\ Gt(col[m], col[st.i])
              /\ NoHigherNeighbour(col, m)
        /\ \A m \in Elements(new_min) :
              /\ LastKind(st) # "min"
              /\ \A k \in Emitted(st) : k < m
              /\ OnPlateau(col, m, st.i - 1)
              /\ Lt(col[m], col[st.i])
              /\ NoLowerNeighbour(col, m)

\* C19: on every close series, flat runs included, each turning point that
\* absolute_turning_points emits is of the other kind than the one emitted
\* before it and has a larger index than every one emitted before it, lies
\* inside the series on the run of equal closes where the trend flipped, and
\* has no higher neighbour if it is a maximum, no lower one if a minimum.
C19_TurningPointsAlternate ==
    [][(pc = "scan" /\ pc' = "scan") => EmissionInOrder(data["Close"], ret, ret')]_vars

\* a maximum on a flat run and a later minimum on a flat run were emitted
C19_Witness ==
    /\ DoneATP
    /\ \E m \in Elements(ret.idx_max), k \in Elements(ret.idx_min) :
          /\ m < k
          /\ Eq(data["Close"][m], data["Close"][m + 1])
          /\ Eq(data["Close"][k], data["Close"][k + 1])

-----------------------------------------------------------------------------
(* Claims about drawdown *)

DoneDD == pc = "done" /\ call.op = "drawdown"

\* the bars where the wealth is at its largest value over the whole series
GlobalMaxBars(wealth) ==
    {t \in DOMAIN wealth : ~isnan(wealth[t]) /\
        \A u \in DOMAIN wealth : isnan(wealth[u]) \/ Le(wealth[u], wealth[t])}

DrawdownInRange(res) ==
    /\ \A t \in DOMAIN res.drawdown :
          Le(F(-1), res.drawdown[t]) /\ Le(res.drawdown[t], F(0))
    /\ \A t \in GlobalMaxBars(res.wealth) : Eq(res.drawdown[t], F(0))

\* C12 as stated: for every return series the drawdown is between -1 and 0 at
\* every bar and is 0 where the wealth attains its global maximum.
C12_DrawdownRangeOriginal == DoneDD => DrawdownInRange(ret)

\* every return is defined and at least -100%, the first one above -100%
LossBounded(returns) ==
    /\ \A t \in DOMAIN returns : Ge(returns[t], F(-1))
    /\ 0 \in DOMAIN returns => Gt(returns[0], F(-1))

\* C12: for every return series of defined returns of at least -100% whose
\* first return is above -100%, the drawdown is between -1 and 0 at every bar
\* and is 0 where the wealth attains its global maximum.
C12_DrawdownRange == (DoneDD /\ LossBounded(data["Return"])) => DrawdownInRange(ret)

\* a gain, then a total loss: the drawdown goes from 0 to -1
C12_Witness ==
    /\ DoneDD
    /\ LossBounded(data["Return"])
    /\ \E t \in DOMAIN ret.drawdown :
          /\ t > 0
          /\ Gt(data["Return"][t - 1], F(0))
          /\ Eq(ret.drawdown[t - 1], F(0))
          /\ Eq(ret.drawdown[t], F(-1))

-----------------------------------------------------------------------------
(* Claims about the caller's table *)

\* C14: no operation changes the price table of its caller: when
\* generate_label (any method, "PDM" included) or ml_backtest returns, the
\* table has the columns and the values it had before the call.
C14_InputUnchanged == [][data' = data]_vars

====
